---- MODULE Spec2Model ----
(***************************************************************************)
(* Model of internal/grpc/grpc.go: the protoc plugin that emits, for each  *)
(* service, a goji router-construction function (one router.Handle line    *)
(* per method) and one HTTP handler per method.                            *)
(*                                                                         *)
(* Three specifications:                                                   *)
(*   GenSpec  - generateService run on a service descriptor: the route     *)
(*              registration loop and the handler emission loop.           *)
(*   Spec     - one server process running the emitted handlers: the       *)
(*              emitted statements are interpreted one at a time.          *)
(*   FairSpec - Spec with weak fairness: a running handler keeps running.  *)
(*                                                                         *)
(* Strings are sequences of one-character strings.                         *)
(***************************************************************************)
EXTENDS Integers, Sequences, FiniteSets, TLC

VARIABLES
    \* ---- generation (generateService) ----
    service,      \* the ServiceDescriptorProto being generated
    gpc,          \* position of generateService: "routes", "handlers", "done"
    gi,           \* index of the next method of the current loop
    routes,       \* the router.Handle lines emitted so far, in order
    handlers,     \* the handler functions emitted so far, in order
    \* ---- one server process running emitted handlers ----
    prog,         \* statements of the handler that is running
    pc,           \* index of the next statement, 0 = no handler running
    req,          \* the request: its method, body bytes, the error its read ends with
    err,          \* the handler's local err ("" is nil)
    content,      \* the handler's local content
    in,           \* the handler's local in
    res,          \* the handler's local res
    w,            \* the http.ResponseWriter of this request
    rbody,        \* r.Body of this request: number of reads and closes
    deferred,     \* whether the deferred r.Body.Close() is registered
    calls,        \* calls of the service implementation made for this request
    log,          \* the process-wide log
    served        \* number of requests this process has been handed

gvars == <<service, gpc, gi, routes, handlers>>
hvars == <<prog, pc, req, err, content, in, res, w, rbody, deferred, calls, log, served>>
vars == <<service, gpc, gi, routes, handlers,
          prog, pc, req, err, content, in, res, w, rbody, deferred, calls, log, served>>

----------------------------------------------------------------------------
(* Bounds *)

\* longest service (number of methods) that is generated
MaxMethods == 2
\* number of requests the server process is handed
MaxRequests == 2

----------------------------------------------------------------------------
(* Strings *)

Uppers == <<"A","B","C","D","E","F","G","H","I","J","K","L","M",
            "N","O","P","Q","R","S","T","U","V","W","X","Y","Z">>
Lowers == <<"a","b","c","d","e","f","g","h","i","j","k","l","m",
            "n","o","p","q","r","s","t","u","v","w","x","y","z">>
Digits == {"0","1","2","3","4","5","6","7","8","9"}

isASCIILower(c) == \E k \in 1..26 : Lowers[k] = c
isASCIIUpper(c) == \E k \in 1..26 : Uppers[k] = c
isASCIIDigit(c) == c \in Digits

LowerChar(c) == IF isASCIIUpper(c) THEN Lowers[CHOOSE k \in 1..26 : Uppers[k] = c] ELSE c
UpperChar(c) == IF isASCIILower(c) THEN Uppers[CHOOSE k \in 1..26 : Lowers[k] = c] ELSE c

\* strings.ToLower, on ASCII
ToLower(s) == [k \in 1..Len(s) |-> LowerChar(s[k])]

\* the double-quote character, the separator of strings.Split(m, "\"")
Quote == "\""

\* strings.Split(s, sep) for a one-character separator: the pieces between
\* the separators, Count(sep)+1 of them, empty pieces included
RECURSIVE SplitFrom(_, _, _)
SplitFrom(s, sep, cur) ==
    IF s = <<>> THEN <<cur>>
    ELSE IF Head(s) = sep THEN <<cur>> \o SplitFrom(Tail(s), sep, <<>>)
    ELSE SplitFrom(Tail(s), sep, Append(cur, Head(s)))

Split(s, sep) == SplitFrom(s, sep, <<>>)

\* generator.CamelCase: words are marked by _ or an upper case letter; an
\* underscore before a lower case letter is dropped and the letter is
\* capitalised; a leading underscore becomes X; digits are copied.
\* i is the position of the next character, word is TRUE inside the run of
\* lower case letters that follows a capitalised letter.
RECURSIVE CamelFrom(_, _, _)
CamelFrom(s, i, word) ==
    IF i > Len(s) THEN <<>>
    ELSE LET c == s[i] IN
         IF word /\ isASCIILower(c) THEN <<c>> \o CamelFrom(s, i + 1, TRUE)
         ELSE IF c = "_" /\ i + 1 <= Len(s) /\ isASCIILower(s[i + 1])
              THEN CamelFrom(s, i + 1, FALSE)
         ELSE IF isASCIIDigit(c) THEN <<c>> \o CamelFrom(s, i + 1, FALSE)
         ELSE <<UpperChar(c)>> \o CamelFrom(s, i + 1, TRUE)

CamelCase(s) ==
    IF s = <<>> THEN <<>>
    ELSE IF s[1] = "_" THEN <<"X">> \o CamelFrom(s, 2, FALSE)
    ELSE CamelFrom(s, 1, FALSE)

----------------------------------------------------------------------------
(* Descriptors the generator is run on *)

\* the option blob of a method whose extension 10000 holds a path
Sentinel == <<"1","0","0","0","0",":">>

ServiceNames == { <<"E","c">>, <<"e","_","c">> }
MethodNames  == { <<"S","y">>, <<"s","_","y">>, <<"T">> }

\* method.GetOptions().String(): empty, override /P, override /p, another
\* field number, a missing closing quote, an escaped quote inside the path,
\* and an override followed by a second option
OptionBlobs ==
    { <<>>,
      Sentinel \o <<Quote, "/", "P", Quote>>,
      Sentinel \o <<Quote, "/", "p", Quote>>,
      <<"1","0","0","0","1",":">> \o <<Quote, "/", "p", Quote>>,
      Sentinel \o <<Quote, "/", "p">>,
      Sentinel \o <<Quote, "/", "\\", Quote, "p", Quote>>,
      Sentinel \o <<Quote, "/", "q", Quote, " ", "7", ":", "1">> }

\* (serverStreaming, clientStreaming) of the generated methods
GenStreaming == { <<FALSE, FALSE>>, <<TRUE, FALSE>> }

Methods ==
    { [name |-> n, serverStreaming |-> f[1], clientStreaming |-> f[2], options |-> o] :
        n \in MethodNames, f \in GenStreaming, o \in OptionBlobs }

\* sequences of at most k methods; protoc rejects a service that declares
\* one method name twice
RECURSIVE MethodSeqs(_)
MethodSeqs(k) ==
    IF k = 0 THEN { <<>> }
    ELSE LET shorter == MethodSeqs(k - 1) IN
         shorter \cup
         { Append(ms, m) : ms \in { x \in shorter : Len(x) = k - 1 }, m \in Methods }

DistinctNames(ms) ==
    \A a, b \in 1..Len(ms) : a # b => ms[a].name # ms[b].name

Services ==
    { [name |-> n, method |-> ms] :
        n \in ServiceNames, ms \in { x \in MethodSeqs(MaxMethods) : DistinctNames(x) } }

----------------------------------------------------------------------------
(* The emitted handler: one token per emitted statement *)

Stmt(op) == [op |-> op, code |-> 0, text |-> "", meth |-> <<>>]

\* ErrBranch with a fault: the branch writes nothing to the log
ErrBranchNoLog(code) ==
    << Stmt("IfErr"),
       [Stmt("WriteHeader") EXCEPT !.code = code],
       Stmt("WriteErr"),
       Stmt("Return"),
       Stmt("EndIf") >>

\* ErrBranch with a fault: the branch does not return
ErrBranchNoReturn(code) ==
    << Stmt("IfErr"),
       [Stmt("WriteHeader") EXCEPT !.code = code],
       Stmt("WriteErr"),
       Stmt("LogErr"),
       Stmt("EndIf") >>

\* ErrBranch with a fault: the error text is written before the status
ErrBranchWriteFirst(code) ==
    << Stmt("IfErr"),
       Stmt("WriteErr"),
       [Stmt("WriteHeader") EXCEPT !.code = code],
       Stmt("LogErr"),
       Stmt("Return"),
       Stmt("EndIf") >>

\* the error branch that follows each fallible step of a unary handler
ErrBranch(code) ==
    << Stmt("IfErr"),                                    \* if err != nil {
       [Stmt("WriteHeader") EXCEPT !.code = code],       \*     w.WriteHeader(code)
       Stmt("WriteErr"),                                 \*     w.Write([]byte(err.Error()))
       Stmt("LogErr"),                                   \*     log.Println(err.Error())
       Stmt("Return"),                                   \*     return
       Stmt("EndIf") >>                                  \* }

\* UnaryProg with a fault: the statuses of the read and decode branches are
\* exchanged
UnaryProgSwapped(methName) ==
    << Stmt("DeclIn"), Stmt("ReadAll"), Stmt("DeferClose") >>
    \o ErrBranch(400)
    \o << Stmt("Unmarshal") >>
    \o ErrBranch(408)
    \o << [Stmt("Invoke") EXCEPT !.meth = methName] >>
    \o ErrBranch(500)
    \o << Stmt("Encode"), Stmt("EndFunc") >>

\* UnaryProg with a fault: the close is deferred only once the read succeeded
UnaryProgLateDefer(methName) ==
    << Stmt("DeclIn"), Stmt("ReadAll") >>
    \o ErrBranch(408)
    \o << Stmt("DeferClose"), Stmt("Unmarshal") >>
    \o ErrBranch(400)
    \o << [Stmt("Invoke") EXCEPT !.meth = methName] >>
    \o ErrBranch(500)
    \o << Stmt("Encode"), Stmt("EndFunc") >>

\* the handler body of a unary method
UnaryProg(methName) ==
    << Stmt("DeclIn"),                                   \* in := T{}
       Stmt("ReadAll"),                                  \* content, err := ioutil.ReadAll(r.Body)
       Stmt("DeferClose") >>                             \* defer r.Body.Close()
    \o ErrBranch(408)
    \o << Stmt("Unmarshal") >>                           \* err = json.Unmarshal(content, &in)
    \o ErrBranch(400)
    \o << [Stmt("Invoke") EXCEPT !.meth = methName] >>   \* res,err := impl.handler.M(context.TODO(),&in)
    \o ErrBranch(500)
    \o << Stmt("Encode"),                                \* json.NewEncoder(w).Encode(res)
          Stmt("EndFunc") >>                             \* }

\* the handler body of a streaming method
StreamingProg ==
    << [Stmt("WriteHeader") EXCEPT !.code = 501],
       [Stmt("WriteLit") EXCEPT !.text = "Streaming functions over http are not supported"],
       Stmt("Return"),
       Stmt("EndFunc") >>

\* generateServerMethod with a fault: only serverStreaming is looked at
generateServerMethodServerOnly(servName, method) ==
    LET methName == CamelCase(method.name) IN
    [ recv |-> <<"_">> \o servName \o <<"S","e","r","v","e","r">>,
      name |-> methName,
      prog |-> IF method.serverStreaming
               THEN StreamingProg
               ELSE UnaryProg(methName) ]

\* generateServerMethod: the handler emitted for one method
generateServerMethod(servName, method) ==
    LET methName == CamelCase(method.name) IN
    [ recv |-> <<"_">> \o servName \o <<"S","e","r","v","e","r">>,
      name |-> methName,
      prog |-> IF method.serverStreaming \/ method.clientStreaming
               THEN StreamingProg
               ELSE UnaryProg(methName) ]

----------------------------------------------------------------------------
(* generateService *)

\* methodPath with a fault: the part before the first quote is taken
methodPathFirstPart(servName, method) ==
    LET path == ToLower(servName) \o <<"/">> \o method.name
        m == method.options
        parts == Split(m, Quote)
    IN  IF m # <<>> /\ Len(parts) = 3 /\ parts[1] = Sentinel
        THEN parts[1]
        ELSE path

\* the path of one method: the default, or the override of its option blob
methodPath(servName, method) ==
    LET path == ToLower(servName) \o <<"/">> \o method.name
        m == method.options
        parts == Split(m, Quote)
    IN  IF m # <<>> /\ Len(parts) = 3 /\ parts[1] = Sentinel
        THEN parts[2]
        ELSE path

\* routeLine with a fault: the path is emitted as computed, not lower-cased
routeLineNoLower(servName, method) ==
    [ path |-> methodPath(servName, method),
      handler |-> CamelCase(method.name) ]

\* the router.Handle line of one method
routeLine(servName, method) ==
    [ path |-> ToLower(methodPath(servName, method)),
      handler |-> CamelCase(method.name) ]

servNameOf(svc) == CamelCase(svc.name)

NoService == [name |-> <<>>, method |-> <<>>]

GenInitVars ==
    /\ service \in Services
    /\ gpc = "routes"
    /\ gi = 1
    /\ routes = <<>>
    /\ handlers = <<>>

\* GenRoute with a fault: a streaming method is given no route
GenRouteUnaryOnly ==
    /\ gpc = "routes"
    /\ gi <= Len(service.method)
    /\ routes' = IF service.method[gi].serverStreaming \/ service.method[gi].clientStreaming
                 THEN routes
                 ELSE Append(routes, routeLine(CamelCase(service.name), service.method[gi]))
    /\ gi' = gi + 1
    /\ UNCHANGED <<service, gpc, handlers>>
    /\ UNCHANGED <<prog, pc, req, err, content, in, res, w, rbody, deferred, calls, log, served>>

\* one iteration of the registration loop
GenRoute ==
    /\ gpc = "routes"
    /\ gi <= Len(service.method)
    /\ routes' = Append(routes, routeLine(servNameOf(service), service.method[gi]))
    /\ gi' = gi + 1
    /\ UNCHANGED <<service, gpc, handlers>>
    /\ UNCHANGED hvars

\* the registration loop is over: return router, the _XServer struct
GenRoutesEnd ==
    /\ gpc = "routes"
    /\ gi > Len(service.method)
    /\ gpc' = "handlers"
    /\ gi' = 1
    /\ UNCHANGED <<service, routes, handlers>>
    /\ UNCHANGED hvars

\* one iteration of the handler loop
GenHandler ==
    /\ gpc = "handlers"
    /\ gi <= Len(service.method)
    /\ handlers' = Append(handlers, generateServerMethod(servNameOf(service), service.method[gi]))
    /\ gi' = gi + 1
    /\ UNCHANGED <<service, gpc, routes>>
    /\ UNCHANGED hvars

GenEnd ==
    /\ gpc = "handlers"
    /\ gi > Len(service.method)
    /\ gpc' = "done"
    /\ UNCHANGED <<service, gi, routes, handlers>>
    /\ UNCHANGED hvars

GenNext == GenRoute \/ GenRoutesEnd \/ GenHandler \/ GenEnd

----------------------------------------------------------------------------
(* The server process: requests and collaborators of the emitted handler *)

\* request bodies: an empty object, an object with the field set, a
\* truncated object, no bytes at all
Bodies == { "{}", "{\"text\":\"hi\"}", "{\"text\":", "" }

\* the error the read of r.Body ends with ("" is a clean EOF)
ReadErrors == { "", "unexpected EOF" }

\* the service whose handlers are served
ServedName == <<"E","c">>

\* the methods requests are routed to: every streaming mode
DispatchMethods ==
    { [name |-> <<"S","y">>, serverStreaming |-> ss, clientStreaming |-> cs, options |-> <<>>] :
        ss \in BOOLEAN, cs \in BOOLEAN }

\* a request: the method its path is bound to, the bytes of its body and
\* the error the read of the body ends with
Requests ==
    { [method |-> m, data |-> d, readErr |-> e] :
        m \in DispatchMethods, d \in Bodies, e \in ReadErrors }

NoMethod == [name |-> <<>>, serverStreaming |-> FALSE, clientStreaming |-> FALSE, options |-> <<>>]

\* the zero value of the input type, and a nil *Out
ZeroIn == [text |-> ""]
NilRes == [nil |-> TRUE, text |-> ""]

\* json.Unmarshal(content, &in) on the bodies above: the error and the value
\* of in afterwards
JsonUnmarshal(c, v) ==
    CASE c = "{}"                  -> [err |-> "", val |-> v]
      [] c = "{\"text\":\"hi\"}"   -> [err |-> "", val |-> [v EXCEPT !.text = "hi"]]
      [] OTHER                     -> [err |-> "unexpected end of JSON input", val |-> v]

\* json.NewEncoder(w).Encode(res): the bytes written, newline included
JsonEncode(r) ==
    CASE r.nil          -> "null\n"
      [] r.text = "hi"  -> "{\"text\":\"hi\"}\n"
      [] OTHER          -> "{\"text\":\"\"}\n"

\* what the injected implementation may answer to input v
ServiceOutcomes(v) ==
    { [res |-> [nil |-> FALSE, text |-> v.text], err |-> ""],
      [res |-> NilRes, err |-> "boom"] }

NewWriter == [calls |-> <<>>, status |-> 0]
NewBody == <<>>

HInitVars ==
    /\ prog = <<>>
    /\ pc = 0
    /\ req = [method |-> NoMethod, data |-> "", readErr |-> ""]
    /\ err = ""
    /\ content = ""
    /\ in = ZeroIn
    /\ res = NilRes
    /\ w = NewWriter
    /\ rbody = NewBody
    /\ deferred = FALSE
    /\ calls = <<>>
    /\ log = <<>>
    /\ served = 0

\* the server hands a request to the handler its path is bound to
Dispatch ==
    /\ pc = 0
    /\ served < MaxRequests
    /\ \E r \in Requests :
          /\ prog' = generateServerMethod(ServedName, r.method).prog
          /\ req' = r
    /\ pc' = 1
    /\ served' = served + 1
    /\ err' = ""
    /\ content' = ""
    /\ in' = ZeroIn
    /\ res' = NilRes
    /\ w' = NewWriter
    /\ rbody' = NewBody
    /\ deferred' = FALSE
    /\ calls' = <<>>
    /\ UNCHANGED log
    /\ UNCHANGED gvars

At(op) == pc >= 1 /\ pc <= Len(prog) /\ prog[pc].op = op

\* w.WriteHeader(code): the first call or write fixes the status on the wire
WriterHeader(wr, code) ==
    [ calls |-> Append(wr.calls, [call |-> "WriteHeader", code |-> code, bytes |-> "", src |-> ""]),
      status |-> IF wr.status = 0 THEN code ELSE wr.status ]

\* w.Write(bytes): a write before any WriteHeader sends status 200
WriterWrite(wr, bytes, src) ==
    [ calls |-> Append(wr.calls, [call |-> "Write", code |-> 0, bytes |-> bytes, src |-> src]),
      status |-> IF wr.status = 0 THEN 200 ELSE wr.status ]

\* the statement after the } that closes the if at position k
RECURSIVE AfterEndIf(_, _)
AfterEndIf(p, k) ==
    IF k > Len(p) THEN k
    ELSE IF p[k].op = "EndIf" THEN k + 1
    ELSE AfterEndIf(p, k + 1)

\* the statement that follows statement k; a closing } does nothing
StepFrom(p, k) ==
    IF k + 1 <= Len(p) /\ p[k + 1].op = "EndIf" THEN k + 2 ELSE k + 1

\* leaving the function runs the deferred r.Body.Close()
RunDeferred(b, d) == IF d THEN Append(b, "close") ELSE b

DeclIn ==
    /\ At("DeclIn")
    /\ in' = ZeroIn
    /\ pc' = StepFrom(prog, pc)
    /\ UNCHANGED <<prog, req, err, content, res, w, rbody, deferred, calls, log, served>>
    /\ UNCHANGED gvars

ReadAll ==
    /\ At("ReadAll")
    /\ content' = req.data
    /\ err' = req.readErr
    /\ rbody' = Append(rbody, "read")
    /\ pc' = StepFrom(prog, pc)
    /\ UNCHANGED <<prog, req, in, res, w, deferred, calls, log, served>>
    /\ UNCHANGED gvars

DeferClose ==
    /\ At("DeferClose")
    /\ deferred' = TRUE
    /\ pc' = StepFrom(prog, pc)
    /\ UNCHANGED <<prog, req, err, content, in, res, w, rbody, calls, log, served>>
    /\ UNCHANGED gvars

IfErr ==
    /\ At("IfErr")
    /\ pc' = IF err # "" THEN StepFrom(prog, pc) ELSE AfterEndIf(prog, pc)
    /\ UNCHANGED <<prog, req, err, content, in, res, w, rbody, deferred, calls, log, served>>
    /\ UNCHANGED gvars

WriteHeader ==
    /\ At("WriteHeader")
    /\ w' = WriterHeader(w, prog[pc].code)
    /\ pc' = StepFrom(prog, pc)
    /\ UNCHANGED <<prog, req, err, content, in, res, rbody, deferred, calls, log, served>>
    /\ UNCHANGED gvars

WriteErr ==
    /\ At("WriteErr")
    /\ w' = WriterWrite(w, err, "err")
    /\ pc' = StepFrom(prog, pc)
    /\ UNCHANGED <<prog, req, err, content, in, res, rbody, deferred, calls, log, served>>
    /\ UNCHANGED gvars

WriteLit ==
    /\ At("WriteLit")
    /\ w' = WriterWrite(w, prog[pc].text, "lit")
    /\ pc' = StepFrom(prog, pc)
    /\ UNCHANGED <<prog, req, err, content, in, res, rbody, deferred, calls, log, served>>
    /\ UNCHANGED gvars

LogErr ==
    /\ At("LogErr")
    /\ log' = Append(log, [rid |-> served, msg |-> err])
    /\ pc' = StepFrom(prog, pc)
    /\ UNCHANGED <<prog, req, err, content, in, res, w, rbody, deferred, calls, served>>
    /\ UNCHANGED gvars

Unmarshal ==
    /\ At("Unmarshal")
    /\ err' = JsonUnmarshal(content, in).err
    /\ in' = JsonUnmarshal(content, in).val
    /\ pc' = StepFrom(prog, pc)
    /\ UNCHANGED <<prog, req, content, res, w, rbody, deferred, calls, log, served>>
    /\ UNCHANGED gvars

Invoke ==
    /\ At("Invoke")
    /\ \E o \in ServiceOutcomes(in) :
          /\ res' = o.res
          /\ err' = o.err
          /\ calls' = Append(calls, [meth |-> prog[pc].meth, in |-> in, res |-> o.res, err |-> o.err])
    /\ pc' = StepFrom(prog, pc)
    /\ UNCHANGED <<prog, req, content, in, w, rbody, deferred, log, served>>
    /\ UNCHANGED gvars

Encode ==
    /\ At("Encode")
    /\ w' = WriterWrite(w, JsonEncode(res), "json")
    /\ pc' = StepFrom(prog, pc)
    /\ UNCHANGED <<prog, req, err, content, in, res, rbody, deferred, calls, log, served>>
    /\ UNCHANGED gvars

Return ==
    /\ At("Return")
    /\ rbody' = RunDeferred(rbody, deferred)
    /\ pc' = 0
    /\ UNCHANGED <<prog, req, err, content, in, res, w, deferred, calls, log, served>>
    /\ UNCHANGED gvars

EndFunc ==
    /\ At("EndFunc")
    /\ rbody' = RunDeferred(rbody, deferred)
    /\ pc' = 0
    /\ UNCHANGED <<prog, req, err, content, in, res, w, deferred, calls, log, served>>
    /\ UNCHANGED gvars

HandlerStep ==
    \/ DeclIn \/ ReadAll \/ DeferClose \/ IfErr \/ WriteHeader \/ WriteErr
    \/ WriteLit \/ LogErr \/ Unmarshal \/ Invoke \/ Encode \/ Return \/ EndFunc

Next == Dispatch \/ HandlerStep

----------------------------------------------------------------------------
(* Specifications *)

\* the server process; nothing is being generated
Init ==
    /\ service = NoService
    /\ gpc = "done"
    /\ gi = 1
    /\ routes = <<>>
    /\ handlers = <<>>
    /\ HInitVars

Spec == Init /\ [][Next]_vars

\* a handler that has been entered runs on to its return
FairSpec == Init /\ [][Next]_vars /\ WF_vars(HandlerStep)

\* one run of generateService; no request is served
GenInit == GenInitVars /\ HInitVars

GenSpec == GenInit /\ [][GenNext]_vars

----------------------------------------------------------------------------
(* Properties *)

\* the handler of the last request has returned
Done == pc = 0 /\ served > 0

Unary(m) == ~m.serverStreaming /\ ~m.clientStreaming

HCall(code) == [call |-> "WriteHeader", code |-> code, bytes |-> "", src |-> ""]
WCall(bytes, src) == [call |-> "Write", code |-> 0, bytes |-> bytes, src |-> src]

\* the codes passed to WriteHeader, in order
HeaderCodes(wr) ==
    LET hs == SelectSeq(wr.calls, LAMBDA c : c.call = "WriteHeader")
    IN  [k \in 1..Len(hs) |-> hs[k].code]

\* the writes of one kind: "err", "lit" or "json"
Wrote(wr, src) == SelectSeq(wr.calls, LAMBDA c : c.call = "Write" /\ c.src = src)

\* the log lines of the current request
MyLog == SelectSeq(log, LAMBDA e : e.rid = served)

\* what decoding the request's bytes into a zero input gives
Decoded == JsonUnmarshal(req.data, ZeroIn)

StreamingText == "Streaming functions over http are not supported"

\* C1: a unary handler that has returned has answered: 408 and the read
\* error's text if the read failed; else 400 and the decode error's text if
\* decoding failed; else 500 and the service error's text if the service
\* returned an error; else the JSON encoding of the returned value and no
\* WriteHeader call at all.
C1_UnaryOutcomes ==
    (Done /\ Unary(req.method)) =>
        /\ req.readErr # "" =>
              w.calls = << HCall(408), WCall(req.readErr, "err") >> /\ w.status = 408
        /\ (req.readErr = "" /\ Decoded.err # "") =>
              w.calls = << HCall(400), WCall(Decoded.err, "err") >> /\ w.status = 400
        /\ (req.readErr = "" /\ Decoded.err = "") =>
              /\ Len(calls) = 1
              /\ calls[1].err # "" =>
                    w.calls = << HCall(500), WCall(calls[1].err, "err") >> /\ w.status = 500
              /\ calls[1].err = "" =>
                    /\ w.calls = << WCall(JsonEncode(calls[1].res), "json") >>
                    /\ HeaderCodes(w) = <<>>

C1_Witness ==
    /\ Done /\ Unary(req.method)
    /\ req.readErr = "" /\ req.data = "{\"text\":\"hi\"}"
    /\ Len(calls) = 1 /\ calls[1].err = ""
    /\ w.calls = << WCall("{\"text\":\"hi\"}\n", "json") >>

\* C2: in a unary handler the service method is called at most once, only
\* with the read and the decode both succeeded, and never on a request that
\* is answered 408 or 400.
C2_InvokeGuard ==
    (served > 0 /\ Unary(req.method)) =>
        /\ Len(calls) <= 1
        /\ calls # <<>> =>
              /\ rbody # <<>> /\ rbody[1] = "read"
              /\ req.readErr = ""
              /\ Decoded.err = ""
              /\ calls[1].in = Decoded.val
        /\ w.status \in {408, 400} => calls = <<>>

C2_Witness ==
    /\ Done /\ Unary(req.method)
    /\ req.readErr = "" /\ Decoded.err # ""
    /\ w.status = 400
    /\ calls = <<>>

\* C3: the handler of a method with either streaming flag set never reads
\* or decodes the body, never calls the service and never encodes a value;
\* once returned it has written exactly status 501 and the fixed text.
C3_StreamingRejected ==
    (served > 0 /\ ~Unary(req.method)) =>
        /\ rbody = <<>>
        /\ content = "" /\ in = ZeroIn
        /\ calls = <<>>
        /\ Wrote(w, "json") = <<>>
        /\ Done => /\ w.calls = << HCall(501), WCall(StreamingText, "lit") >>
                   /\ w.status = 501

C3_Witness ==
    /\ Done
    /\ req.method.clientStreaming /\ ~req.method.serverStreaming
    /\ req.readErr = "" /\ req.data = "{\"text\":\"hi\"}"
    /\ w.status = 501
    /\ calls = <<>>

\* C7: in a unary handler the body is read first and closed afterwards, at
\* most once, and it has been closed exactly once when the handler has
\* returned, whatever the outcome.
C7_BodyClosedOnce ==
    (served > 0 /\ Unary(req.method)) =>
        /\ rbody \in { <<>>, <<"read">>, <<"read", "close">> }
        /\ Done => rbody = <<"read", "close">>

C7_Witness ==
    /\ Done /\ Unary(req.method)
    /\ w.status = 408
    /\ rbody = <<"read", "close">>

\* C8 as claimed: a handler that has returned with status 408, 400, 500 or
\* 501 has written to the log.
C8_EveryFailureLogs ==
    (Done /\ w.status \in {408, 400, 500, 501}) => MyLog # <<>>

\* C8 amended: a unary handler that has returned with status 408, 400 or 500
\* has written the error's text to the log, once; a handler that has
\* returned with status 501 has written nothing to the log.
C8_UnaryFailuresLog ==
    Done =>
        /\ w.status \in {408, 400, 500} => MyLog = << [rid |-> served, msg |-> err] >>
        /\ w.status = 501 => MyLog = <<>>

C8_Witness ==
    /\ Done
    /\ served = 2
    /\ w.status = 501
    /\ log = << [rid |-> 1, msg |-> "boom"] >>

\* the safety part of C10: WriteHeader is called at most once and before any
\* write; no response has both a status call and an encoded value; a handler
\* that has returned has produced one of the four statuses and no encoded
\* value, or one encoded value and nothing else.
C10_Safe ==
    served > 0 =>
        /\ Len(HeaderCodes(w)) <= 1
        /\ \A k \in 1..Len(w.calls) : w.calls[k].call = "WriteHeader" => k = 1
        /\ ~(HeaderCodes(w) # <<>> /\ Wrote(w, "json") # <<>>)
        /\ Done =>
              \/ /\ HeaderCodes(w) \in { <<408>>, <<400>>, <<500>>, <<501>> }
                 /\ w.status = HeaderCodes(w)[1]
                 /\ Wrote(w, "json") = <<>>
              \/ /\ HeaderCodes(w) = <<>>
                 /\ Len(w.calls) = 1
                 /\ Len(Wrote(w, "json")) = 1

\* C10: every handler that is entered returns, with exactly one outcome.
C10_OneOutcome == []C10_Safe /\ ((pc # 0) ~> (pc = 0))

C10_Witness ==
    /\ Done /\ Unary(req.method)
    /\ Len(calls) = 1 /\ calls[1].err = "boom"
    /\ w.calls = << HCall(500), WCall("boom", "err") >>

\* the method's option blob splits into three parts, the first the sentinel
IsOverride(m) ==
    LET parts == Split(m.options, Quote)
    IN  Len(parts) = 3 /\ parts[1] = Sentinel

\* method k has been through the registration loop
Registered(k) == k \in 1..Len(service.method) /\ (gpc # "routes" \/ k < gi)

\* C4: the route of a method with a well-formed override is the second part
\* of the blob, lower-cased.
C4_OverrideRoute ==
    \A k \in 1..Len(service.method) :
        (Registered(k) /\ IsOverride(service.method[k])) =>
            /\ k <= Len(routes)
            /\ routes[k].path = ToLower(Split(service.method[k].options, Quote)[2])

C4_Witness ==
    /\ gpc = "done"
    /\ Len(routes) = 1
    /\ service.method[1].options = Sentinel \o <<Quote, "/", "P", Quote>>
    /\ routes[1].path = <<"/", "p">>

\* C5 as claimed: the route of a method without a well-formed override is
\* the lower-cased service name, a slash and the method name as declared.
C5_DefaultRouteVerbatim ==
    \A k \in 1..Len(service.method) :
        (Registered(k) /\ ~IsOverride(service.method[k])) =>
            /\ k <= Len(routes)
            /\ routes[k].path = ToLower(service.name) \o <<"/">> \o service.method[k].name

\* C5 amended: the route of a method without a well-formed override is the
\* lower-cased camel-cased service name, a slash and the lower-cased method
\* name; every such method gets its route.
C5_DefaultRouteLowered ==
    \A k \in 1..Len(service.method) :
        (Registered(k) /\ ~IsOverride(service.method[k])) =>
            /\ k <= Len(routes)
            /\ routes[k].path =
                  ToLower(CamelCase(service.name)) \o <<"/">> \o ToLower(service.method[k].name)

C5_Witness ==
    /\ gpc = "done"
    /\ service.name = <<"e", "_", "c">>
    /\ Len(routes) = 1
    /\ service.method[1].name = <<"S", "y">>
    /\ service.method[1].options = <<"1","0","0","0","1",":">> \o <<Quote, "/", "p", Quote>>
    /\ routes[1].path = <<"e", "c", "/", "s", "y">>

\* C6 as claimed: the paths registered for one service are pairwise
\* distinct.
C6_PathsDistinct ==
    \A a, b \in 1..Len(routes) : a # b => routes[a].path # routes[b].path

\* C9: the registration loop emits one route per method, in declaration
\* order, streaming methods included.
C9_OneRoutePerMethod ==
    /\ gpc = "routes" => Len(routes) = gi - 1
    /\ gpc # "routes" => Len(routes) = Len(service.method)
    /\ \A k \in 1..Len(routes) :
          /\ k <= Len(service.method)
          /\ routes[k].handler = CamelCase(service.method[k].name)

C9_Witness ==
    /\ gpc = "done"
    /\ Len(service.method) = 2
    /\ service.method[1].serverStreaming
    /\ service.method[1].name = <<"T">>
    /\ service.method[2].name = <<"s", "_", "y">>
    /\ Len(routes) = 2
    /\ routes[1].handler = <<"T">>
    /\ routes[2].handler = <<"S", "Y">>

====
